---- MODULE Spec2Model ----
(***************************************************************************)
(* Model of clone_repos.py, the GitLab batch repository cloner.            *)
(*                                                                         *)
(* Strings are sequences of ASCII codes, so that str.lower() and the list  *)
(* membership test of the filter are computed rather than assumed.  The    *)
(* GitLab API and the external commands (rm, git) are the environment:     *)
(* each request is answered with a status and a page chosen by the server, *)
(* each command succeeds or fails.                                         *)
(***************************************************************************)
EXTENDS Integers, Sequences, FiniteSets

VARIABLES
    FOLDERS_TO_CLONE,  \* the allow-list read from the environment at import
    pc,                \* position of main()
    cwd,               \* the process working directory
    page,              \* local of the running discovery call
    all_subgroups,     \* local of get_subgroups
    subgroups,         \* main(): result of get_subgroups
    all_projects,      \* local of get_subgroup_projects
    projects,          \* main(): result of get_subgroup_projects
    target_repos,      \* main(): the filtered projects
    idx,               \* main(): position of the for loop over subgroups
    tidx,              \* main(): position of the for loop over target_repos
    success_count,     \* main(): the tally of successful clones
    outDir,            \* filesystem: does batch-28-students exist
    studentDirs,       \* filesystem: student directories under the output root
    clones,            \* filesystem: clone path -> directory content
    nextId,            \* server: id of the next project record it lists
    upstream,          \* server: content of the repository the fetch runs clone
    log,               \* history: requests of the discovery call running or just returned
    attempts,          \* history: the clone_repo invocations, in order
    found,             \* history: per student, what its project discovery returned
    startRoot          \* history: the output root as the run found it

vars == <<FOLDERS_TO_CLONE, pc, cwd, page, all_subgroups, subgroups, all_projects,
          projects, target_repos, idx, tidx, success_count, outDir, studentDirs,
          clones, nextId, upstream, log, attempts, found, startRoot>>

----------------------------------------------------------------------------
(* Bounds of the model *)

MaxMembers == 2

MaxProjects == 3

MaxPageLen == 2

MaxCalls == 3

MaxVer == 2

(* params = {"per_page": 100} *)
PerPage == 100

----------------------------------------------------------------------------
(* Strings.  The repository names are abbreviated: "Hw", "Pr", "Hw2", and *)
(* the students are "a", "b", ...; group and project names are unique in  *)
(* their namespace, project names are not across nested subgroups.         *)

Homeworks == <<72, 119>>

Projects == <<80, 114>>

(* a name no entry of either allow-list equals, though one is its prefix *)
Homeworks2 == <<72, 119, 50>>

RepoNames == {Homeworks, Projects, Homeworks2}

(* the default "Homeworks,Projects".split(","), and a lower-case one-entry list *)
AllowLists == {<<Homeworks, Projects>>, <<(<<104, 119>>)>>}

LowerChar(c) == IF c >= 65 /\ c <= 90 THEN c + 32 ELSE c

lower(s) == [i \in DOMAIN s |-> LowerChar(s[i])]

IsPrefix(s, t) == Len(s) <= Len(t) /\ SubSeq(t, 1, Len(s)) = s

(* Python's  x in list : equality with one of the elements *)
InList(x, list) == \E i \in DOMAIN list : list[i] = x

folders_lower(folders) == [i \in DOMAIN folders |-> lower(folders[i])]

(* variant: a filter that accepts a name an entry is a prefix of *)
FilterSubstring(ps, folders) ==
    SelectSeq(ps, LAMBDA p :
        \E i \in DOMAIN folders : IsPrefix(lower(folders[i]), lower(p.name)))

(* target_repos = [p for p in projects if p["name"].lower() in folders_lower] *)
Filter(ps, folders) ==
    SelectSeq(ps, LAMBDA p : InList(lower(p.name), folders_lower(folders)))

Min(a, b) == IF a <= b THEN a ELSE b

RECURSIVE Concat(_)
Concat(pages) == IF pages = <<>> THEN <<>> ELSE Head(pages) \o Concat(Tail(pages))

----------------------------------------------------------------------------
(* The server *)

StudentName(k) == <<96 + k>>

Subgroup(k) == [id |-> k, name |-> StudentName(k)]

(* a page of k further subgroup records after n listed ones *)
SubgroupPage(n, k) == [i \in 1..k |-> Subgroup(n + i)]

(* a page of project records with fresh ids and the given names *)
ProjectPage(first, names) ==
    [i \in DOMAIN names |-> [id |-> first + i - 1, name |-> names[i]]]

NameSeqs(k) == [1..k -> RepoNames]

Statuses == {200, 401}

----------------------------------------------------------------------------
(* The filesystem *)

Absent == [exists |-> FALSE, src |-> 0, ver |-> 0, nm |-> FALSE]

At(fs, p) == IF p \in DOMAIN fs THEN fs[p] ELSE Absent

Put(fs, p, d) ==
    IF d.exists
    THEN [q \in (DOMAIN fs) \cup {p} |-> IF q = p THEN d ELSE fs[q]]
    ELSE [q \in (DOMAIN fs) \ {p} |-> fs[q]]

NoClones == [q \in {} |-> Absent]

(* os.path.join(student_name, repo_name) *)
ClonePath(student_name, repo_name) == <<student_name, repo_name>>

(* os.chdir(output_dir); "lost" is any directory other than the two *)
ChdirOut(d) == IF d = "base" THEN "out" ELSE "lost"

(* os.chdir("..") *)
ChdirParent(d) == IF d = "out" THEN "base" ELSE "lost"

----------------------------------------------------------------------------
(* clone_repo *)

(* the outcome of  git clone auth_url repo_name  on a missing or empty path *)
Fresh(remote) == [exists |-> TRUE, src |-> remote.src, ver |-> remote.ver, nm |-> remote.nm]

(* variant: the removal of node_modules run with check=True *)
CleanupChecked(dir, nmOK) ==
    [dir |-> IF dir.nm /\ nmOK THEN [dir EXCEPT !.nm = FALSE] ELSE dir,
     ok |-> ~dir.nm \/ nmOK]

(* if os.path.exists(node_modules_path): subprocess.run(rm -rf, check=False); *)
(* then  return True                                                          *)
Cleanup(dir, nmOK) ==
    [dir |-> IF dir.nm /\ nmOK THEN [dir EXCEPT !.nm = FALSE] ELSE dir,
     ok |-> TRUE]

(* variant: the skip-if-exists policy of the sparse-checkout workflow *)
clone_repo_skip_existing(target, remote, rmOK, gitOK, nmOK) ==
    IF target.exists
    THEN [dir |-> target, ok |-> TRUE, rm_issued |-> FALSE, clone_issued |-> FALSE,
          cloned |-> FALSE, nm_failed |-> FALSE]
    ELSE LET done == Cleanup(Fresh(remote), nmOK)
         IN  [dir |-> IF gitOK THEN done.dir ELSE target,
              ok |-> gitOK /\ done.ok, rm_issued |-> FALSE, clone_issued |-> TRUE,
              cloned |-> gitOK, nm_failed |-> gitOK /\ done.dir.nm]

(* clone_repo(repo_url, repo_name): the target directory afterwards, the      *)
(* returned boolean, and which commands were run.  rm -rf of the target runs  *)
(* with check=False; git clone runs with check=True and refuses a path that   *)
(* still exists and is not empty, leaving it as it was; every exception is    *)
(* caught and turned into False.  rm and git are installed: a command that   *)
(* fails is one that exits non-zero.                                          *)
clone_repo(target, remote, rmOK, gitOK, nmOK) ==
    LET afterRm == IF target.exists /\ rmOK THEN Absent ELSE target
        cloned == gitOK /\ ~afterRm.exists
        done == Cleanup(Fresh(remote), nmOK)
    IN  [dir |-> IF cloned THEN done.dir ELSE afterRm,
         ok |-> cloned /\ done.ok,
         rm_issued |-> target.exists,
         clone_issued |-> TRUE,
         cloned |-> cloned,
         nm_failed |-> cloned /\ done.dir.nm]

----------------------------------------------------------------------------
(* The discovery loops *)

(* variant: a loop that stops at the first page that is not full *)
SubgroupsStepShortPage(acc, pg, status, body) ==
    IF status # 200
    THEN [returned |-> TRUE, result |-> <<>>, acc |-> acc, page |-> pg]
    ELSE IF Len(body) < MaxPageLen
    THEN [returned |-> TRUE, result |-> acc \o body, acc |-> acc \o body, page |-> pg]
    ELSE [returned |-> FALSE, result |-> <<>>, acc |-> acc \o body, page |-> pg + 1]

(* one turn of the while loop of get_subgroups on the response received *)
SubgroupsStep(acc, pg, status, body) ==
    IF status # 200
    THEN [returned |-> TRUE, result |-> <<>>, acc |-> acc, page |-> pg]
    ELSE IF body = <<>>
    THEN [returned |-> TRUE, result |-> acc, acc |-> acc, page |-> pg]
    ELSE [returned |-> FALSE, result |-> <<>>, acc |-> acc \o body, page |-> pg + 1]

(* variant: a loop that returns what it has on an error status *)
ProjectsStepKeepPartial(acc, pg, status, body) ==
    IF status # 200 \/ body = <<>>
    THEN [returned |-> TRUE, result |-> acc, acc |-> acc, page |-> pg]
    ELSE [returned |-> FALSE, result |-> <<>>, acc |-> acc \o body, page |-> pg + 1]

(* one turn of the while loop of get_subgroup_projects *)
ProjectsStep(acc, pg, status, body) ==
    IF status # 200
    THEN [returned |-> TRUE, result |-> <<>>, acc |-> acc, page |-> pg]
    ELSE IF body = <<>>
    THEN [returned |-> TRUE, result |-> acc, acc |-> acc, page |-> pg]
    ELSE [returned |-> FALSE, result |-> <<>>, acc |-> acc \o body, page |-> pg + 1]

Entry(call, pg, status, body) ==
    [call |-> call, page |-> pg, status |-> status, body |-> body]

----------------------------------------------------------------------------
(* main() *)

Attempt(student, project, remote, before, r) ==
    [student |-> student, id |-> project.id, name |-> project.name, ver |-> remote.ver,
     ok |-> r.ok, rm_issued |-> r.rm_issued, clone_issued |-> r.clone_issued,
     cloned |-> r.cloned, nm_failed |-> r.nm_failed, before |-> before, after |-> r.dir]

(* the roots a run can start from: no output root, and one that holds a clone *)
(* left by an earlier run                                                     *)
Stale == [exists |-> TRUE, src |-> 0, ver |-> 1, nm |-> FALSE]

StartRoots ==
    {[outDir |-> FALSE, studentDirs |-> {}, clones |-> NoClones],
     [outDir |-> TRUE, studentDirs |-> {StudentName(1)},
      clones |-> Put(NoClones, ClonePath(StudentName(1), Homeworks), Stale)]}

Init ==
    /\ FOLDERS_TO_CLONE \in AllowLists
    /\ pc = "get_subgroups"
    /\ cwd = "base"
    /\ page = 1
    /\ all_subgroups = <<>>
    /\ subgroups = <<>>
    /\ all_projects = <<>>
    /\ projects = <<>>
    /\ target_repos = <<>>
    /\ idx = 0
    /\ tidx = 0
    /\ success_count = 0
    /\ \E root \in StartRoots :
          /\ outDir = root.outDir
          /\ studentDirs = root.studentDirs
          /\ clones = root.clones
          /\ startRoot = root
    /\ nextId = 1
    /\ upstream = [ver |-> 1, nm |-> FALSE]
    /\ log = <<>>
    /\ attempts = <<>>
    /\ found = <<>>

(* get_subgroups: one request of the loop and what the loop does with the  *)
(* response; the locals are gone once the call has returned                *)
GetSubgroupsPage ==
    /\ pc = "get_subgroups"
    /\ \E status \in Statuses :
       \E k \in 0..Min(Min(MaxPageLen, PerPage), MaxMembers - Len(all_subgroups)) :
          LET body == IF status = 200 THEN SubgroupPage(Len(all_subgroups), k) ELSE <<>>
              r == SubgroupsStep(all_subgroups, page, status, body)
          IN  /\ status # 200 => k = 0
              /\ log' = Append(log, Entry("subgroups", page, status, body))
              /\ all_subgroups' = IF r.returned THEN <<>> ELSE r.acc
              /\ page' = IF r.returned THEN 1 ELSE r.page
              /\ subgroups' = IF r.returned THEN r.result ELSE subgroups
              /\ pc' = IF r.returned THEN "check" ELSE pc
    /\ UNCHANGED <<FOLDERS_TO_CLONE, cwd, all_projects, projects, target_repos, idx,
                   tidx, success_count, outDir, studentDirs, clones, nextId, upstream,
                   attempts, found, startRoot>>

(* requests.get or response.json() raises inside get_subgroups: nothing in *)
(* main() catches it                                                        *)
GetSubgroupsRaise ==
    /\ pc = "get_subgroups"
    /\ pc' = "crashed"
    /\ UNCHANGED <<FOLDERS_TO_CLONE, cwd, page, all_subgroups, subgroups, all_projects,
                   projects, target_repos, idx, tidx, success_count, outDir,
                   studentDirs, clones, nextId, upstream, log, attempts, found, startRoot>>

(* variant: the output directory made before the check *)
NoSubgroupsAfterMakedirs ==
    /\ pc = "check"
    /\ subgroups = <<>>
    /\ outDir' = TRUE
    /\ pc' = "exit"
    /\ UNCHANGED <<FOLDERS_TO_CLONE, cwd, page, all_subgroups, subgroups, all_projects,
                   projects, target_repos, idx, tidx, success_count, studentDirs,
                   clones, nextId, upstream, log, attempts, found, startRoot>>

(* if not subgroups: print(...); return *)
NoSubgroups ==
    /\ pc = "check"
    /\ subgroups = <<>>
    /\ pc' = "exit"
    /\ UNCHANGED <<FOLDERS_TO_CLONE, cwd, page, all_subgroups, subgroups, all_projects,
                   projects, target_repos, idx, tidx, success_count, outDir,
                   studentDirs, clones, nextId, upstream, log, attempts, found, startRoot>>

(* os.makedirs(output_dir) if missing; os.chdir(output_dir); success_count = 0 *)
EnterOutputDir ==
    /\ pc = "check"
    /\ subgroups # <<>>
    /\ outDir' = TRUE
    /\ cwd' = ChdirOut(cwd)
    /\ success_count' = 0
    /\ idx' = 1
    /\ pc' = "student"
    /\ UNCHANGED <<FOLDERS_TO_CLONE, page, all_subgroups, subgroups, all_projects,
                   projects, target_repos, tidx, studentDirs, clones, nextId, upstream,
                   log, attempts, found, startRoot>>

(* os.makedirs(output_dir) or os.chdir(output_dir) raises *)
EnterOutputDirRaise ==
    /\ pc = "check"
    /\ subgroups # <<>>
    /\ pc' = "crashed"
    /\ UNCHANGED <<FOLDERS_TO_CLONE, cwd, page, all_subgroups, subgroups, all_projects,
                   projects, target_repos, idx, tidx, success_count, outDir,
                   studentDirs, clones, nextId, upstream, log, attempts, found, startRoot>>

(* top of  for subgroup in subgroups : the student directory is made and the *)
(* project discovery of the student begins                                    *)
EnterStudent ==
    /\ pc = "student"
    /\ idx <= Len(subgroups)
    /\ studentDirs' = studentDirs \cup {subgroups[idx].name}
    /\ all_projects' = <<>>
    /\ page' = 1
    /\ log' = <<>>
    /\ pc' = "get_projects"
    /\ UNCHANGED <<FOLDERS_TO_CLONE, cwd, all_subgroups, subgroups, projects,
                   target_repos, idx, tidx, success_count, outDir, clones, nextId,
                   upstream, attempts, found, startRoot>>

(* os.makedirs(student_name) raises *)
EnterStudentRaise ==
    /\ pc = "student"
    /\ idx <= Len(subgroups)
    /\ subgroups[idx].name \notin studentDirs
    /\ pc' = "crashed"
    /\ UNCHANGED <<FOLDERS_TO_CLONE, cwd, page, all_subgroups, subgroups, all_projects,
                   projects, target_repos, idx, tidx, success_count, outDir,
                   studentDirs, clones, nextId, upstream, log, attempts, found, startRoot>>

(* get_subgroup_projects: one request of the loop *)
GetProjectsPage ==
    /\ pc = "get_projects"
    /\ \E status \in Statuses :
       \E k \in 0..Min(Min(MaxPageLen, PerPage), MaxProjects + 1 - nextId) :
       \E names \in NameSeqs(k) :
          LET body == IF status = 200 THEN ProjectPage(nextId, names) ELSE <<>>
              r == ProjectsStep(all_projects, page, status, body)
          IN  /\ status # 200 => k = 0
              /\ log' = Append(log, Entry("projects", page, status, body))
              /\ found' = IF r.returned
                           THEN Append(found, [projects |-> r.result, failed |-> status # 200])
                           ELSE found
              /\ nextId' = nextId + Len(body)
              /\ all_projects' = IF r.returned THEN <<>> ELSE r.acc
              /\ page' = IF r.returned THEN 1 ELSE r.page
              /\ projects' = IF r.returned THEN r.result ELSE projects
              /\ pc' = IF r.returned THEN "filter" ELSE pc
    /\ UNCHANGED <<FOLDERS_TO_CLONE, cwd, all_subgroups, subgroups, target_repos, idx,
                   tidx, success_count, outDir, studentDirs, clones, upstream,
                   attempts, startRoot>>

(* requests.get or response.json() raises inside get_subgroup_projects *)
GetProjectsRaise ==
    /\ pc = "get_projects"
    /\ pc' = "crashed"
    /\ UNCHANGED <<FOLDERS_TO_CLONE, cwd, page, all_subgroups, subgroups, all_projects,
                   projects, target_repos, idx, tidx, success_count, outDir,
                   studentDirs, clones, nextId, upstream, log, attempts, found, startRoot>>

(* target_repos = [...]; if not target_repos: continue *)
FilterRepos ==
    /\ pc = "filter"
    /\ target_repos' = Filter(projects, FOLDERS_TO_CLONE)
    /\ log' = <<>>
    /\ IF target_repos' = <<>>
       THEN /\ idx' = idx + 1
            /\ pc' = "student"
            /\ tidx' = tidx
       ELSE /\ idx' = idx
            /\ pc' = "clone"
            /\ tidx' = 1
    /\ UNCHANGED <<FOLDERS_TO_CLONE, cwd, page, all_subgroups, subgroups, all_projects,
                   projects, success_count, outDir, studentDirs, clones, nextId,
                   upstream, attempts, found, startRoot>>

(* variant: a failed clone ends the student's loop *)
AfterCloneStopOnFailure(ok, t, n) ==
    IF ok /\ t < n THEN [pc |-> "clone", tidx |-> t + 1, step |-> 0]
    ELSE [pc |-> "student", tidx |-> t, step |-> 1]

(* the for loop over target_repos after clone_repo returned: the next target, *)
(* or the next student after the last one                                     *)
AfterClone(ok, t, n) ==
    IF t < n THEN [pc |-> "clone", tidx |-> t + 1, step |-> 0]
    ELSE [pc |-> "student", tidx |-> t, step |-> 1]

(* variant: every invocation counted *)
TallyAttempts(count, ok) == count + 1

(* if clone_repo(repo_url, clone_path): success_count += 1 *)
Tally(count, ok) == IF ok THEN count + 1 ELSE count

(* body of  for project in target_repos *)
CloneRepo ==
    /\ pc = "clone"
    /\ LET project == target_repos[tidx]
           student_name == subgroups[idx].name
           clone_path == ClonePath(student_name, project.name)
           before == At(clones, clone_path)
       IN  \E rmOK, gitOK, nmOK, hasNM \in BOOLEAN :
              LET remote == [src |-> project.id, ver |-> 1, nm |-> hasNM]
                  r == clone_repo(before, remote, rmOK, gitOK, nmOK)
                  nxt == AfterClone(r.ok, tidx, Len(target_repos))
              IN  /\ clones' = Put(clones, clone_path, r.dir)
                  /\ attempts' = Append(attempts, Attempt(idx, project, remote, before, r))
                  /\ success_count' = Tally(success_count, r.ok)
                  /\ tidx' = nxt.tidx
                  /\ idx' = idx + nxt.step
                  /\ pc' = nxt.pc
    /\ UNCHANGED <<FOLDERS_TO_CLONE, cwd, page, all_subgroups, subgroups, all_projects,
                   projects, target_repos, outDir, studentDirs, nextId, upstream, log,
                   found, startRoot>>

(* after the loop: os.chdir("..") and the final tally *)
Finish ==
    /\ pc = "student"
    /\ idx > Len(subgroups)
    /\ cwd' = ChdirParent(cwd)
    /\ pc' = "done"
    /\ UNCHANGED <<FOLDERS_TO_CLONE, page, all_subgroups, subgroups, all_projects,
                   projects, target_repos, idx, tidx, success_count, outDir,
                   studentDirs, clones, nextId, upstream, log, attempts, found, startRoot>>

Next ==
    \/ GetSubgroupsPage
    \/ GetSubgroupsRaise
    \/ NoSubgroups
    \/ EnterOutputDir
    \/ EnterOutputDirRaise
    \/ EnterStudent
    \/ EnterStudentRaise
    \/ GetProjectsPage
    \/ GetProjectsRaise
    \/ FilterRepos
    \/ CloneRepo
    \/ Finish

Spec == Init /\ [][Next]_vars

(* main() is one sequential process: a step that can be taken is taken *)
FairSpec == Spec /\ WF_vars(Next)

----------------------------------------------------------------------------
(* clone_repo called repeatedly against one target path, the upstream       *)
(* repository changing or not between the calls                             *)

FetchProject == [id |-> 1, name |-> Homeworks]

FetchPath == ClonePath(StudentName(1), FetchProject.name)

InitFetch ==
    /\ FOLDERS_TO_CLONE = <<Homeworks, Projects>>
    /\ pc = "fetch"
    /\ cwd = "out"
    /\ page = 1
    /\ all_subgroups = <<>>
    /\ subgroups = <<Subgroup(1)>>
    /\ all_projects = <<>>
    /\ projects = <<FetchProject>>
    /\ target_repos = <<FetchProject>>
    /\ idx = 1
    /\ tidx = 1
    /\ success_count = 0
    /\ outDir = TRUE
    /\ studentDirs = {StudentName(1)}
    /\ clones = NoClones
    /\ startRoot = [outDir |-> TRUE, studentDirs |-> {StudentName(1)}, clones |-> NoClones]
    /\ nextId = 2
    /\ \E nm \in BOOLEAN : upstream = [ver |-> 1, nm |-> nm]
    /\ log = <<>>
    /\ attempts = <<>>
    /\ found = <<>>

(* clone_repo(repo_url, clone_path) on the same repository and path again *)
FetchCall ==
    /\ pc = "fetch"
    /\ Len(attempts) < MaxCalls
    /\ \E rmOK, gitOK, nmOK \in BOOLEAN :
          LET before == At(clones, FetchPath)
              remote == [src |-> FetchProject.id, ver |-> upstream.ver, nm |-> upstream.nm]
              r == clone_repo(before, remote, rmOK, gitOK, nmOK)
          IN  /\ clones' = Put(clones, FetchPath, r.dir)
              /\ attempts' = Append(attempts, Attempt(1, FetchProject, remote, before, r))
              /\ success_count' = Tally(success_count, r.ok)
    /\ UNCHANGED <<FOLDERS_TO_CLONE, pc, cwd, page, all_subgroups, subgroups,
                   all_projects, projects, target_repos, idx, tidx, outDir, studentDirs,
                   nextId, upstream, log, found, startRoot>>

(* somebody pushes to the remote repository *)
UpstreamPush ==
    /\ pc = "fetch"
    /\ upstream.ver < MaxVer
    /\ \E nm \in BOOLEAN : upstream' = [ver |-> upstream.ver + 1, nm |-> nm]
    /\ UNCHANGED <<FOLDERS_TO_CLONE, pc, cwd, page, all_subgroups, subgroups,
                   all_projects, projects, target_repos, idx, tidx, success_count,
                   outDir, studentDirs, clones, nextId, log, attempts, found, startRoot>>

NextFetch == FetchCall \/ UpstreamPush

SpecFetch == InitFetch /\ [][NextFetch]_vars

----------------------------------------------------------------------------
(* Vocabulary of the properties *)

(* the name, lower-cased, equals a lower-cased allow-list entry *)
Matches(name) ==
    \E i \in DOMAIN FOLDERS_TO_CLONE : lower(name) = lower(FOLDERS_TO_CLONE[i])

Range(seq) == {seq[i] : i \in DOMAIN seq}

Repo(r) == [id |-> r.id, name |-> r.name]

(* the repositories clone_repo was invoked on for student m *)
ClonedFor(m) == {Repo(a) : a \in {b \in Range(attempts) : b.student = m}}

MatchingOf(ps) == {p \in Range(ps) : Matches(p.name)}

(* the students whose loop body has run to its end *)
Processed == 1..Min(idx - 1, Len(found))

AttemptsOn(m, id) ==
    Cardinality({i \in DOMAIN attempts : attempts[i].student = m /\ attempts[i].id = id})

Successes == Cardinality({i \in DOMAIN attempts : attempts[i].ok})

Returned == pc \in {"check", "filter"}

Result == IF pc = "check" THEN subgroups ELSE projects

AllOK == \A i \in DOMAIN log : log[i].status = 200

Bodies(n) == [i \in 1..n |-> log[i].body]

Ended == pc \in {"done", "exit", "crashed"}

----------------------------------------------------------------------------
(* C1: clone_repo is invoked only on repositories whose lower-cased name    *)
(* equals a lower-cased allow-list entry, and for every student whose loop  *)
(* body has finished the repositories it was invoked on are exactly the     *)
(* matching ones among the student's discovered projects.                   *)
C1_OnlyMatchingCloned ==
    /\ \A i \in DOMAIN attempts : Matches(attempts[i].name)
    /\ \A m \in 1..Len(found) : ClonedFor(m) \subseteq MatchingOf(found[m].projects)
    /\ \A m \in Processed : ClonedFor(m) = MatchingOf(found[m].projects)

(* a finished run that cloned Homeworks for the entry "hw" and left a       *)
(* discovered Homeworks2 alone                                              *)
C1_Witness ==
    /\ pc = "done"
    /\ FOLDERS_TO_CLONE = <<(<<104, 119>>)>>
    /\ \E m \in 1..Len(found) :
          /\ \E p \in Range(found[m].projects) : p.name = Homeworks2
          /\ \E a \in Range(attempts) : a.student = m /\ a.name = Homeworks

(* C2: a discovery call requests pages 1, 2, ... in order, goes on only     *)
(* after a non-empty page with status 200, and when every status was 200    *)
(* its last request is the first empty page, N + 1, and it returns the      *)
(* concatenation of the N pages before it, in order.                        *)
C2_Pagination ==
    /\ \A i \in DOMAIN log : log[i].page = i /\ Len(log[i].body) <= PerPage
    /\ \A i \in 1..(Len(log) - 1) : log[i].status = 200 /\ log[i].body # <<>>
    /\ (Returned /\ AllOK) =>
          /\ log # <<>>
          /\ log[Len(log)].body = <<>>
          /\ Result = Concat(Bodies(Len(log) - 1))

(* get_subgroup_projects returned three records from two pages *)
C2_Witness ==
    /\ pc = "filter"
    /\ AllOK
    /\ Len(log) = 3
    /\ Len(log[1].body) = 2
    /\ Len(log[2].body) = 1
    /\ Len(projects) = 3

(* C3: a non-200 status is the last request of its discovery call, and the  *)
(* call returns the empty sequence whatever pages it had received; for a    *)
(* student whose project discovery failed clone_repo is never invoked, and  *)
(* the step after the failed discovery moves to the next student.           *)
C3_State ==
    /\ \A i \in 1..(Len(log) - 1) : log[i].status = 200
    /\ (Returned /\ ~AllOK) => Result = <<>>
    /\ \A m \in 1..Len(found) : found[m].failed =>
          /\ found[m].projects = <<>>
          /\ ClonedFor(m) = {}
          /\ idx = m => pc = "filter"

C3_Step ==
    (pc = "filter" /\ found[idx].failed) =>
        (pc' = "student" /\ idx' = idx + 1 /\ attempts' = attempts /\ clones' = clones)

C3_DiscoveryFailure == []C3_State /\ [][C3_Step]_vars

(* the second page of a student's projects failed after a non-empty first   *)
(* page, and another student follows                                        *)
C3_Witness ==
    /\ pc = "filter"
    /\ Len(log) = 2
    /\ log[1].body # <<>>
    /\ log[2].status # 200
    /\ projects = <<>>
    /\ idx < Len(subgroups)

(* every matching repository of every discovered student was attempted    *)
(* exactly once                                                             *)
AllAttemptedOnce ==
    /\ Len(found) = Len(subgroups)
    /\ \A m \in 1..Len(found) :
          \A p \in MatchingOf(found[m].projects) : AttemptsOn(m, p.id) = 1

(* C4: a failed clone does not stop the run: unless an error outside        *)
(* clone_repo ends it, the run reaches its end with every matching          *)
(* repository of every discovered student attempted exactly once, however   *)
(* many of the clones failed.                                               *)
C4_FailedCloneRecovered ==
    <>(pc = "crashed" \/ (pc \in {"done", "exit"} /\ AllAttemptedOnce))

(* a finished run whose first clone failed and which went on to clone for   *)
(* the same and for the next student                                        *)
C4_Witness ==
    /\ pc = "done"
    /\ Len(attempts) = 3
    /\ ~attempts[1].ok /\ attempts[1].clone_issued
    /\ attempts[2].student = 1
    /\ attempts[3].student = 2

(* C5: at every end of a run the working directory is the one the run       *)
(* started in.                                                              *)
C5_CwdRestored == Ended => cwd = "base"

(* C6: at the end of a run that found students, every discovered student    *)
(* was processed and the tally of cloned repositories is the number of      *)
(* clone_repo invocations that returned True.                               *)
C6_FinalTally ==
    pc = "done" =>
        /\ subgroups # <<>>
        /\ idx - 1 = Len(subgroups)
        /\ Len(found) = Len(subgroups)
        /\ success_count = Successes

(* one student with Homeworks, Projects and a third, non-matching project   *)
(* under the default allow-list: 1 student, 2 repositories, the third not   *)
(* cloned                                                                   *)
C6_Witness ==
    /\ pc = "done"
    /\ FOLDERS_TO_CLONE = <<Homeworks, Projects>>
    /\ Len(subgroups) = 1
    /\ [i \in DOMAIN found[1].projects |-> found[1].projects[i].name]
          = <<Homeworks, Projects, Homeworks2>>
    /\ success_count = 2
    /\ DOMAIN clones = {ClonePath(StudentName(1), Homeworks),
                        ClonePath(StudentName(1), Projects)}

(* C8: an invocation whose git clone succeeded returns True also when the   *)
(* removal of node_modules failed, and it is counted in the tally.          *)
C8_CleanupBestEffort ==
    /\ \A i \in DOMAIN attempts : attempts[i].cloned => attempts[i].ok
    /\ success_count >= Cardinality({i \in DOMAIN attempts : attempts[i].cloned})

(* a finished run that counted a clone whose node_modules is still there *)
C8_Witness ==
    /\ pc = "done"
    /\ success_count = 1
    /\ \E i \in DOMAIN attempts :
          attempts[i].cloned /\ attempts[i].nm_failed /\ attempts[i].after.nm

(* C9: a run whose group discovery returned nothing ends without having     *)
(* touched the filesystem or the working directory and without a project    *)
(* request or a clone; a run gets past the check only with subgroups.       *)
C9_EmptyGroupExit ==
    /\ pc = "exit" =>
          /\ outDir = startRoot.outDir
          /\ studentDirs = startRoot.studentDirs
          /\ clones = startRoot.clones
          /\ cwd = "base"
          /\ \A i \in DOMAIN log : log[i].call = "subgroups"
          /\ found = <<>>
          /\ attempts = <<>>
    /\ pc \in {"student", "get_projects", "filter", "clone", "done"} => subgroups # <<>>
    /\ (pc = "check" /\ subgroups = <<>>) => (outDir = startRoot.outDir /\ cwd = "base")

(* the subgroups request was answered 401 and the run ended with no output  *)
(* directory                                                                *)
C9_Witness ==
    /\ pc = "exit"
    /\ Len(log) = 1
    /\ log[1].status = 401
    /\ ~outDir

(* C10: after a run that started from an empty output root, the tally of    *)
(* cloned repositories is the number of clone directories under the root,   *)
(* and every clone directory holds the repository of a clone counted.       *)
C10_TallyIsDirectories ==
    (pc = "done" /\ startRoot.clones = NoClones) =>
        /\ success_count = Cardinality(DOMAIN clones)
        /\ \A q \in DOMAIN clones :
              \E a \in Range(attempts) :
                 a.ok /\ ClonePath(subgroups[a.student].name, a.name) = q
                      /\ clones[q].src = a.id

(* consecutive invocations between which the upstream repository did not    *)
(* change                                                                   *)
Rerun(i) == i + 1 \in DOMAIN attempts /\ attempts[i].ver = attempts[i + 1].ver

====
